---------------------------- MODULE Spec2Model ----------------------------
(***************************************************************************)
(* A model of the supabase-mcp HTTP gateway.  The repository holds several *)
(* iterations of one server.js; each iteration ("variant") is modelled by  *)
(* its own handlers, and a behaviour of the model is one server process    *)
(* of one variant serving a sequence of requests.                          *)
(*                                                                         *)
(* JavaScript values are records [t, s, n] (type tag, string payload,      *)
(* number payload); JavaScript strings are TLA+ strings.                   *)
(***************************************************************************)
EXTENDS Integers, Sequences, FiniteSets, TLC

VARIABLES
  variant,        \* which iteration of server.js this process runs
  sdkHelper,      \* which HTTP helper the installed SDK's Server object has
  req,            \* the request served last
  resp,           \* the response the client received for it
  trace,          \* what the handler did while serving it
  sseTransports,  \* the process-wide map sessionId -> transport
  opened,         \* session ids of the streams opened so far
  closed,         \* session ids whose response has emitted "close"
  nextSid,        \* number of transports constructed so far
  dbCalled,       \* methods of the database client called so far
  sdkLayout,      \* what import() gave for the module paths tried so far
  sseCache        \* the module-level cache of getSSEServerTransport

vars == <<variant, sdkHelper, req, resp, trace, sseTransports, opened, closed,
          nextSid, dbCalled, sdkLayout, sseCache>>

-----------------------------------------------------------------------------
(* Bounds of the model *)

MaxSessions == 2

\* calls of the resolver that find no transport, after which GET /sse is
\* no longer followed
MaxFailedResolves == 2

-----------------------------------------------------------------------------
(* JavaScript values *)

Undefined == [t |-> "undefined", s |-> "", n |-> 0]
Null == [t |-> "null", s |-> "", n |-> 0]
Str(x) == [t |-> "string", s |-> x, n |-> 0]
Num(k) == [t |-> "number", s |-> "", n |-> k]

Min(a, b) == IF a < b THEN a ELSE b
Max(a, b) == IF a > b THEN a ELSE b

\* ToBoolean
Truthy(v) ==
  CASE v.t = "string" -> v.s # ""
    [] v.t = "number" -> v.n # 0
    [] v.t = "function" -> TRUE
    [] OTHER -> FALSE

\* String(v), also the conversion a template literal applies
ToStr(v) ==
  CASE v.t = "string" -> v.s
    [] v.t = "number" -> ToString(v.n)
    [] v.t = "null" -> "null"
    [] OTHER -> "undefined"

\* a || b
OrElse(a, b) == IF Truthy(a) THEN a ELSE b

\* a ?? b
Coalesce(a, b) == IF a.t \in {"undefined", "null"} THEN b ELSE a

RECURSIVE TrimStart(_)
TrimStart(s) == IF s # "" /\ Head(s) = " " THEN TrimStart(Tail(s)) ELSE s

RECURSIVE TrimEnd(_)
TrimEnd(s) ==
  IF s # "" /\ SubSeq(s, Len(s), Len(s)) = " "
  THEN TrimEnd(SubSeq(s, 1, Len(s) - 1))
  ELSE s

\* String.prototype.trim
Trim(s) == TrimEnd(TrimStart(s))

\* String.prototype.slice(0, k)
SliceTo(s, k) == IF Len(s) > k THEN SubSeq(s, 1, k) ELSE s

Digits == <<"0", "1", "2", "3", "4", "5", "6", "7", "8", "9">>
IsDigit(c) == \E i \in 1..10 : Digits[i] = c
DigitVal(c) == (CHOOSE i \in 1..10 : Digits[i] = c) - 1

RECURSIVE ParseDigits(_, _)
ParseDigits(s, acc) ==
  IF s # "" /\ IsDigit(Head(s))
  THEN ParseDigits(Tail(s), 10 * acc + DigitVal(Head(s)))
  ELSE acc

\* parseInt(s, 10): [nan, v]
ParseInt(s0) ==
  LET s == TrimStart(s0)
      neg == s # "" /\ Head(s) = "-"
      d == IF s # "" /\ Head(s) \in {"-", "+"} THEN Tail(s) ELSE s
  IN IF d = "" \/ ~IsDigit(Head(d))
     THEN [nan |-> TRUE, v |-> 0]
     ELSE [nan |-> FALSE, v |-> IF neg THEN 0 - ParseDigits(d, 0) ELSE ParseDigits(d, 0)]

RECURSIVE Rep(_, _)
Rep(c, k) ==
  IF k = 0
  THEN ""
  ELSE LET h == Rep(c, k \div 2)
       IN h \o h \o (IF k % 2 = 1 THEN c ELSE "")


-----------------------------------------------------------------------------
(* Results, JSON envelopes and the response object *)

PROTOCOL_VERSION == "2024-11-05"

SEARCH_TOOL_DEF ==
  [name |-> "search", title |-> "",
   description |-> "Simple text search (stub). Returns placeholder results; to be wired to Supabase.",
   parameters |-> FALSE]

SEARCH_ACTION_DEF ==
  [name |-> "search", title |-> "Search",
   description |-> "Search across your data (stub).",
   parameters |-> TRUE]

NoResult ==
  [kind |-> "none", text |-> "", defs |-> <<>>, protocolVersion |-> "",
   capabilities |-> {}]

\* { content: [{ type: "text", text }] }
ContentResult(text) == [NoResult EXCEPT !.kind = "content", !.text = text]

\* { tools: [def] } and { actions: [def] }
ListResult(k, def) == [NoResult EXCEPT !.kind = k, !.defs = <<def>>]

\* { ok: true, route: "direct" }
DirectResult == [NoResult EXCEPT !.kind = "direct", !.text = "direct"]

\* { ok: true, note: "fallback-injected" }
InjectedResult == [NoResult EXCEPT !.kind = "direct", !.text = "fallback-injected"]

\* a result object produced by the SDK
SdkResult == [NoResult EXCEPT !.kind = "sdk"]

\* {}: an object with no members
EmptyEnvelope ==
  [members |-> {}, id |-> Undefined, result |-> NoResult, code |-> 0,
   message |-> "", error |-> "", err |-> <<>>]

\* { jsonrpc: "2.0", id, result }
ResultEnvelope(id, result) ==
  [EmptyEnvelope EXCEPT !.members = {"jsonrpc", "id", "result"}, !.id = id,
                        !.result = result]

\* { jsonrpc: "2.0", id, error: { code, message } }
ErrorEnvelope(id, code, message) ==
  [EmptyEnvelope EXCEPT !.members = {"jsonrpc", "id", "error"}, !.id = id,
                        !.code = code, !.message = message]

\* { error: "<text>" }
PlainErrorEnvelope(text) ==
  [EmptyEnvelope EXCEPT !.members = {"error"}, !.error = text]

NoBody == [kind |-> "none", text |-> "", json |-> EmptyEnvelope]
TextBody(text) == [kind |-> "text", text |-> text, json |-> EmptyEnvelope]
JsonBody(env) == [kind |-> "json", text |-> "", json |-> env]

\* A fresh http.ServerResponse
NewRes ==
  [statusCode |-> 200, headersSent |-> FALSE, ended |-> FALSE, wireStatus |-> 0,
   ctype |-> "", body |-> NoBody, sends |-> 0, allowOrigin |-> "",
   allowHeaders |-> ""]

\* res.status(code)
ResStatus(res, code) == [res EXCEPT !.statusCode = code]

\* the head goes on the wire once, with the status code set at that moment
Flush(res, ctype, body) ==
  [res EXCEPT !.headersSent = TRUE, !.ended = TRUE,
              !.wireStatus = IF res.headersSent THEN @ ELSE res.statusCode,
              !.ctype = IF res.headersSent THEN @ ELSE ctype,
              !.body = IF res.ended THEN @ ELSE body,
              !.sends = IF res.ended THEN @ ELSE @ + 1]

\* res.json(obj)
ResJson(res, env) == Flush(res, "application/json; charset=utf-8", JsonBody(env))

\* res.send("<text>")
ResSend(res, text) == Flush(res, "text/html; charset=utf-8", TextBody(text))

\* res.end("<text>") / res.end()
ResEnd(res, text) == Flush(res, res.ctype, IF text = "" THEN NoBody ELSE TextBody(text))

\* res.sendStatus(code): a 204 is sent without a body
ResSendStatus(res, code) ==
  IF code = 204
  THEN Flush(ResStatus(res, code), "", NoBody)
  ELSE ResSend(ResStatus(res, code), ToString(code))

-----------------------------------------------------------------------------
(* Requests *)

EmptyArgs == [t |-> "object", query |-> Undefined, topK |-> Undefined]
ArgsObject(q, k) == [t |-> "object", query |-> q, topK |-> k]
UndefinedArgs == [t |-> "undefined", query |-> Undefined, topK |-> Undefined]
NullArgs == [t |-> "null", query |-> Undefined, topK |-> Undefined]

\* A request: the HTTP method and path, the members of the JSON body (method,
\* id, params.name, params.arguments; Undefined for a member that is absent),
\* the sessionId and arguments query parameters, and the kind of raw body.
NoReq ==
  [http |-> "", path |-> "", method |-> Undefined, id |-> Undefined,
   name |-> Undefined, args |-> UndefinedArgs, sessionId |-> Undefined,
   argText |-> "absent", bodyKind |-> "none", requestHeaders |-> Undefined]

\* an Error object: String(e) is "<name>: <message>"
ErrorOf(name, message) == [name |-> name, message |-> message]
StringOfError(e) == e.name \o ": " \o e.message
NoError == ErrorOf("", "")

-----------------------------------------------------------------------------
(* The stub search capability *)

\* Math.min(Math.max(parseInt(args.topK ?? 3, 10) || 3, 1), 10)
TopKOf(args) ==
  LET p == ParseInt(ToStr(Coalesce(args.topK, Num(3))))
      k == IF p.nan \/ p.v = 0 THEN 3 ELSE p.v
  IN Min(Max(k, 1), 10)

\* String(args.query || "").trim()
QueryOf(args) == Trim(ToStr(OrElse(args.query, Str(""))))

\* the text of the stub answer; v6.8.1's tools/call adds a "Next step" line
SearchText(args, nextStep) ==
  LET q == QueryOf(args)
  IN IF q # ""
     THEN "Search results for \"" \o q
          \o "\" (stub)\n- No database wired yet.\n- topK=" \o ToString(TopKOf(args))
          \o (IF nextStep
              THEN "\n- Next step: connect Supabase and return real rows."
              ELSE "")
     ELSE "Search (stub): no query provided."

\* body.params?.arguments || {}
ArgsOrEmpty(args) == IF args.t = "object" THEN args ELSE EmptyArgs

-----------------------------------------------------------------------------
(* handleJsonRpc: v6.8.1 (part_000), v6.8.2 (server.js), v6.9.4 (part_006) *)

\* const method = body.method || "<no-method>"
MethodOf(r) == OrElse(r.method, Str("<no-method>"))

\* a test of the id by truthiness, which takes id 0 for a notification
IsNotificationFalsy(r) == ~Truthy(r.id)

\* !hasId || id === null
IsNotification(r) == r.id.t \in {"undefined", "null"}

\* typeof mcpServer.handleHTTP === "function", else typeof handleRequest
HelperPresent(h) == h \in {"handleHTTP", "handleRequest"}

InitializeResult ==
  [NoResult EXCEPT !.kind = "initialize", !.protocolVersion = PROTOCOL_VERSION,
                   !.capabilities = {"tools", "actions.search"}]

NoSdkOut == [kind |-> "not-called", e |-> NoError]

\* what the handler returns: the response object and what it did on the way
Outcome(res, branch, sdk) ==
  [res |-> res, branch |-> branch, sdk |-> sdk.kind, escaped |-> FALSE,
   errLen |-> 0]

AnswerStatus == 200

\* return res.status(200).json(env)
Answer(env, branch, sdk) ==
  Outcome(ResJson(ResStatus(NewRes, AnswerStatus), env), branch, sdk)

CatchSliceChars == 300
CatchCode == -32000

\* a catch block that forgets .slice(0, 300)
CatchEnvelopeUnsliced(r, e) ==
  ErrorEnvelope(OrElse(r.id, Null), CatchCode, StringOfError(e))

\* the envelope of the catch block
CatchEnvelope(r, e) ==
  ErrorEnvelope(OrElse(r.id, Null), CatchCode,
                SliceTo(StringOfError(e), CatchSliceChars))

CatchStatus == 200

\* a catch block that answers 500 instead of 200
CaughtWith500(r, e, sdk) ==
  [Outcome(ResJson(ResStatus(NewRes, 500), CatchEnvelope(r, e)), "catch", sdk)
     EXCEPT !.errLen = Len(StringOfError(e))]

\* catch(e) { return res.status(200).json({ ..., error: { code: -32000, ... } }) }
Caught(r, e, sdk) ==
  [Outcome(ResJson(ResStatus(NewRes, CatchStatus), CatchEnvelope(r, e)),
           "catch", sdk)
     EXCEPT !.errLen = Len(StringOfError(e))]

NotFoundCode == -32601

\* a comparison that trims the name first
IsSearchTrimmed(name) == name.t = "string" /\ Trim(name.s) = "search"

\* name === "search"
IsSearch(name) == name = Str("search")

ToolsCallFallback(v, r, sdk) ==
  IF IsSearch(r.name)
  THEN Answer(ResultEnvelope(r.id,
                ContentResult(SearchText(ArgsOrEmpty(r.args), v = "v6.8.1"))),
              "tools/call:found", sdk)
  ELSE Answer(ErrorEnvelope(r.id, NotFoundCode,
                "Tool " \o ToStr(r.name) \o " not found"),
              "tools/call:notfound", sdk)

ActionsCallFallback(r, sdk) ==
  IF IsSearch(r.name)
  THEN Answer(ResultEnvelope(r.id,
                ContentResult(SearchText(ArgsOrEmpty(r.args), FALSE))),
              "actions/call:found", sdk)
  ELSE Answer(ErrorEnvelope(r.id, NotFoundCode,
                "Action " \o ToStr(r.name) \o " not found"),
              "actions/call:notfound", sdk)

DefaultFallback(r, sdk) ==
  Answer(ErrorEnvelope(r.id, NotFoundCode,
           "Method " \o ToStr(MethodOf(r)) \o " not found"),
         "default", sdk)

\* the handler's own answers, in the order of the if-chain
Fallbacks(v, r, sdk) ==
  LET m == MethodOf(r)
  IN CASE m = Str("initialize") ->
            Answer(ResultEnvelope(r.id, InitializeResult), "initialize", sdk)
       [] m = Str("tools/list") ->
            Answer(ResultEnvelope(r.id, ListResult("tools", SEARCH_TOOL_DEF)),
                   "tools/list", sdk)
       [] m = Str("tools/call") -> ToolsCallFallback(v, r, sdk)
       [] m = Str("actions/list") ->
            Answer(ResultEnvelope(r.id, ListResult("actions", SEARCH_ACTION_DEF)),
                   "actions/list", sdk)
       [] m = Str("actions/call") -> ActionsCallFallback(r, sdk)
       [] OTHER -> DefaultFallback(r, sdk)

\* every variant asking the SDK first, as v6.8.1 does
SdkFirst(v) == {}

\* only initialize answered before the SDK, as in v6.8.2
InitializeOnly(v) == IF v = "v6.8.1" THEN {} ELSE {Str("initialize")}

\* the methods a variant answers itself before it consults the SDK
ShortCircuited(v) ==
  CASE v = "v6.8.2" -> {Str("initialize")}
    [] v = "v6.9.4" -> {Str("initialize"), Str("tools/list"), Str("tools/call")}
    [] OTHER -> {}

\* a response object the SDK helper resolved to
SdkEnvelope(out, r) ==
  IF out.kind = "error"
  THEN ErrorEnvelope(r.id, NotFoundCode, "Method not found")
  ELSE ResultEnvelope(r.id, SdkResult)

\* JSON.stringify of a cyclic object throws
JsonTypeError == ErrorOf("TypeError", "Converting circular structure to JSON")

\* v6.8.1: return res.status(200).json(out ?? {})
\* v6.8.2, v6.9.4: if(out) return res.status(200).json(out), else fall through
AfterSdk(v, out, r) ==
  CASE out.kind = "throw" -> Caught(r, out.e, out)
    [] out.kind = "cyclic" -> Caught(r, JsonTypeError, out)
    [] out.kind = "nullish" ->
         IF v = "v6.8.1"
         THEN Answer(EmptyEnvelope, "sdk-empty", out)
         ELSE Fallbacks(v, r, out)
    [] OTHER -> Answer(SdkEnvelope(out, r), "sdk", out)

HandleJsonRpc(v, h, out, r) ==
  IF IsNotification(r)
  THEN Outcome(ResSendStatus(NewRes, 204), "notification", NoSdkOut)
  ELSE IF MethodOf(r) \in ShortCircuited(v)
  THEN Fallbacks(v, r, NoSdkOut)
  ELSE IF HelperPresent(h)
  THEN AfterSdk(v, out, r)
  ELSE Fallbacks(v, r, NoSdkOut)

\* whether handleJsonRpc reaches the SDK helper for this request
ConsultsSdk(v, h, r) ==
  /\ ~IsNotification(r)
  /\ MethodOf(r) \notin ShortCircuited(v)
  /\ HelperPresent(h)

-----------------------------------------------------------------------------
(* POST /messages of v6.5.3 (part_004) *)

HandleMessagesV653(h, out, r) ==
  IF HelperPresent(h)
  THEN CASE out.kind = "throw" -> Caught(r, out.e, out)
         [] out.kind = "cyclic" -> Caught(r, JsonTypeError, out)
         [] out.kind = "nullish" -> Answer(EmptyEnvelope, "sdk-empty", out)
         [] OTHER -> Answer(SdkEnvelope(out, r), "sdk", out)
  ELSE Outcome(ResJson(ResStatus(NewRes, 501),
                 PlainErrorEnvelope("MCP HTTP handler not available in this SDK build")),
               "sdk-unavailable", NoSdkOut)

-----------------------------------------------------------------------------
(* REST actions shim of v6.9.4 (part_006) *)

\* { ...result, jsonrpc: "2.0", id: 0, result }
RestEnvelope(spread, result) ==
  [EmptyEnvelope EXCEPT !.members = {spread, "jsonrpc", "id", "result"},
                        !.id = Num(0), !.result = result]

\* { error: "Action <name> not found", jsonrpc: "2.0", id: 0,
\*   errorRPC: { code: -32601, message: "Action <name> not found" } }
RestNotFoundEnvelope(name) ==
  [EmptyEnvelope EXCEPT !.members = {"error", "jsonrpc", "id", "errorRPC"},
                        !.id = Num(0), !.code = NotFoundCode,
                        !.message = "Action " \o ToStr(name) \o " not found",
                        !.error = "Action " \o ToStr(name) \o " not found"]

\* Express's final handler: an exception that leaves a route handler is
\* answered 500 with an HTML page
FinalHandler(e) ==
  [res |-> ResSend(ResStatus(NewRes, 500), StringOfError(e)),
   branch |-> "uncaught", sdk |-> "not-called", escaped |-> TRUE,
   errLen |-> Len(StringOfError(e))]

RestNotFoundStatus == 404

\* a restCallHandler that answers with the text of v6.8.1's tools/call
RestCallHandlerNextStep(name, args) ==
  IF IsSearch(name)
  THEN Outcome(ResJson(ResStatus(NewRes, 200),
                 RestEnvelope("content", ContentResult(SearchText(args, TRUE)))),
               "rest/call:found", NoSdkOut)
  ELSE Outcome(ResJson(ResStatus(NewRes, RestNotFoundStatus),
                 RestNotFoundEnvelope(name)),
               "rest/call:notfound", NoSdkOut)

\* restCallHandler(name, args, res); args.query of a null args throws
RestCallHandler(name, args) ==
  IF IsSearch(name)
  THEN IF args.t = "null"
       THEN FinalHandler(ErrorOf("TypeError",
              "Cannot read properties of null (reading 'query')"))
       ELSE Outcome(ResJson(ResStatus(NewRes, 200),
                      RestEnvelope("content", ContentResult(SearchText(args, FALSE)))),
                    "rest/call:found", NoSdkOut)
  ELSE Outcome(ResJson(ResStatus(NewRes, RestNotFoundStatus),
                 RestNotFoundEnvelope(name)),
               "rest/call:notfound", NoSdkOut)

\* const name = String(req.query.name || "").trim()
RestGetName(r) == Str(Trim(ToStr(OrElse(r.name, Str("")))))

\* args = {}; if the arguments parameter is a string, JSON.parse it, and keep
\* {} when that throws
RestGetArgs(r) ==
  IF r.argText = "json"
  THEN (IF r.args.t = "undefined" THEN EmptyArgs ELSE r.args)
  ELSE EmptyArgs

\* app.get("/actions/call") and its aliases
RestCallGet(r) == RestCallHandler(RestGetName(r), RestGetArgs(r))

\* app.post("/actions/call") and its aliases:
\* name = req.body?.name; args = req.body?.arguments || {}
RestCallPost(r) == RestCallHandler(r.name, ArgsOrEmpty(r.args))

\* app.use((_req, res) => res.status(404).json({ error: "Not found" }))
NotFound404 ==
  Outcome(ResJson(ResStatus(NewRes, 404), PlainErrorEnvelope("Not found")),
          "404", NoSdkOut)

\* restListHandler
RestListHandler ==
  Outcome(ResJson(ResStatus(NewRes, 200),
            RestEnvelope("actions", ListResult("actions", SEARCH_ACTION_DEF))),
          "rest/list", NoSdkOut)

\* app.use(cors({ origin: "*", methods: [...] })) answers every OPTIONS
\* request itself, before the app.options routes
RestPreflight ==
  Outcome(Flush(ResStatus(NewRes, 204), "", NoBody), "cors-preflight", NoSdkOut)

\* function headOk(_req, res) { setCors(res); res.status(200).end(); }
HeadOk == Outcome(ResEnd(ResStatus(NewRes, 200), ""), "head", NoSdkOut)

\* the routes of /actions and /actions/list: OPTIONS and HEAD under every
\* prefix, restListHandler for GET under every prefix and for POST
\* /actions/list at the root only
RestList(http, prefix, route) ==
  CASE http = "OPTIONS" -> RestPreflight
    [] http = "HEAD" -> HeadOk
    [] \/ http = "GET"
       \/ (http = "POST" /\ prefix = "" /\ route = "/actions/list") ->
         RestListHandler
    [] OTHER -> NotFound404

\* /actions/call under every prefix for the methods other than GET and POST
RestCallOther(http) ==
  CASE http = "OPTIONS" -> RestPreflight
    [] http = "HEAD" -> HeadOk
    [] OTHER -> NotFound404

-----------------------------------------------------------------------------
(* /messages of v6.4 (part_001) *)

\* Buffer.byteLength of a body; a serialised object has at least its braces
ByteLength(body) ==
  CASE body.kind = "none" -> 0
    [] body.kind = "text" -> Len(body.text)
    [] OTHER -> 2 + Cardinality(body.json.members)

\* res.writeHead = (code, ...args) => code !== 200 ? _writeHead(200) : _writeHead(code)
PatchedWriteHead(code) == IF code # 200 THEN 200 ELSE code

\* { jsonrpc: "2.0", id: Date.now(), result: { ok: true, note: "fallback-injected" } }
FallbackEnvelope(now) == ResultEnvelope(Num(now), InjectedResult)

\* res.end = (chunk) => { count chunk; if (bodyBytes === 0) inject the fallback }
PatchedEnd(chunk, bodyBytes, now) ==
  IF bodyBytes + ByteLength(chunk) = 0
  THEN JsonBody(FallbackEnvelope(now))
  ELSE chunk

\* the guarded response: Content-Type and status preset, head and end patched.
\* bodyBytes is what the patched json and send have counted before end runs;
\* "sent" is the chunk express hands to end (none for a HEAD request).
GuardedFlush(code, sent, bodyBytes, now) ==
  [NewRes EXCEPT !.statusCode = code, !.headersSent = TRUE, !.ended = TRUE,
                 !.wireStatus = PatchedWriteHead(code),
                 !.ctype = "application/json; charset=utf-8",
                 !.body = PatchedEnd(sent, bodyBytes, now),
                 !.sends = 1]

\* app.all("/messages"): res.status(200).json({ ..., result: { ok, route } })
\* through the guard's json, send and end
DirectAnswer(http, now) ==
  LET body == JsonBody(ResultEnvelope(Num(now), DirectResult))
      counted == ByteLength(body) + ByteLength(body)
  IN GuardedFlush(200, IF http = "HEAD" THEN NoBody ELSE body, counted, now)

\* app.use(cors()): the cors middleware answers a preflight itself
CorsPreflight == Flush(ResStatus(NewRes, 204), "", NoBody)

\* app.use(express.json()): a body that does not parse is passed to the
\* error handler, which answers 400
JsonParseFailure ==
  ResSend(ResStatus(NewRes, 400), "SyntaxError: Unexpected end of JSON input")

\* the middleware chain of v6.4 for a request to /messages
HandleMessagesV64(http, bodyKind, now) ==
  IF http = "OPTIONS"
  THEN Outcome(CorsPreflight, "cors-preflight", NoSdkOut)
  ELSE IF bodyKind = "malformed"
  THEN Outcome(JsonParseFailure, "body-parser-error", NoSdkOut)
  ELSE Outcome(DirectAnswer(http, now), "direct", NoSdkOut)

-----------------------------------------------------------------------------
(* The session-based variants: part_004 (first file; part_002's first file  *)
(* is the same code), part_005, server.js (first file), part_003            *)

\* transport.sessionId of the n-th transport constructed
SidOf(n) == "s" \o ToString(n)

\* new SSEServerTransport("/messages", res)
TransportOf(n) == [tid |-> n, sessionId |-> SidOf(n)]
NoTransport == [tid |-> 0, sessionId |-> ""]

\* const sseTransports = {}: a plain object, whose property reads also see
\* what it inherits from Object.prototype
ObjectPrototypeKeys ==
  {"constructor", "toString", "valueOf", "hasOwnProperty", "__proto__"}

\* sseTransports[key]
Lookup(map, key) ==
  IF key \in DOMAIN map
  THEN [kind |-> "transport", t |-> map[key]]
  ELSE IF key \in ObjectPrototypeKeys
  THEN [kind |-> "inherited", t |-> NoTransport]
  ELSE [kind |-> "undefined", t |-> NoTransport]

\* sseTransports[transport.sessionId] = transport
Register(map, t) ==
  [k \in DOMAIN map \cup {t.sessionId} |-> IF k = t.sessionId THEN t ELSE map[k]]

\* a close handler that empties the whole map
UnregisterAll(map, t) == [k \in {} |-> NoTransport]

\* delete sseTransports[transport.sessionId]
Unregister(map, t) == [k \in DOMAIN map \ {t.sessionId} |-> map[k]]

\* part_004: const sessionId = req.query.sessionId
\* the others: const sessionId = String(req.query.sessionId || "")
SessionKey(v, r) ==
  IF v = "part_004" THEN ToStr(r.sessionId) ELSE ToStr(OrElse(r.sessionId, Str("")))

SessionOutcome(res, branch, hpm, db) ==
  [res |-> res, branch |-> branch, sdk |-> "not-called", escaped |-> FALSE,
   errLen |-> 0, hpm |-> hpm, db |-> db]

NoSessionStatus == 400
InternalErrorStatus == 500

\* the answer to a request without a usable session
NoSession(v, text) ==
  IF v \in {"part_003", "v4"}
  THEN ResJson(ResStatus(NewRes, NoSessionStatus), PlainErrorEnvelope(text))
  ELSE ResSend(ResStatus(NewRes, NoSessionStatus), text)

\* catch (e) { if (!res.headersSent) res.status(500).send("Internal error") }
SessionCatch(v, res) ==
  IF res.headersSent
  THEN res
  ELSE IF v \in {"part_003", "v4"}
  THEN ResJson(ResStatus(res, InternalErrorStatus), PlainErrorEnvelope("Internal error"))
  ELSE ResSend(ResStatus(res, InternalErrorStatus), "Internal error")

\* what the SDK transport's handlePostMessage does to the response:
\* res.writeHead(code).end(text), or nothing
HpWrites(hp) ==
  CASE hp.kind = "accepted" -> ResEnd(ResStatus(NewRes, 202), "Accepted")
    [] hp.kind = "invalid" -> ResEnd(ResStatus(NewRes, 400), "Invalid message")
    [] hp.kind = "not-established" ->
         ResEnd(ResStatus(NewRes, 500), "SSE connection not established")
    [] OTHER -> NewRes

\* a tool registry in which every tool reads a table
ToolCallbackAlwaysReads(name) == {"from"}

\* the registered tools' callbacks: db.rows awaits supabase.from(table)
\* .select("*").range(...), sql.query awaits supabase.rpc("exec_sql", ...)
ToolCallback(name) ==
  CASE name = Str("db.rows") -> {"from"}
    [] name = Str("sql.query") -> {"rpc"}
    [] OTHER -> {}

\* the database calls a message makes once the SDK has dispatched it
Dispatched(hp, r) ==
  IF hp.kind = "accepted" /\ hp.dispatched /\ r.method = Str("tools/call")
  THEN ToolCallback(r.name)
  ELSE {}

\* server.js, after the await: if (!finished) res.status(200).end() else if
\* (res.statusCode === 202) res.statusCode = 200
Normalize(res, finished) ==
  IF ~finished
  THEN ResEnd(ResStatus(res, 200), "")
  ELSE IF res.statusCode = 202 THEN ResStatus(res, 200) ELSE res

\* part_003, after the await: if (!res.headersSent && !res.writableEnded)
\* res.status(200).json({ ok: true })
OkEnvelope == [EmptyEnvelope EXCEPT !.members = {"ok"}]
FallbackOk(res) ==
  IF ~res.headersSent /\ ~res.ended
  THEN ResJson(ResStatus(res, 200), OkEnvelope)
  ELSE res

AfterHandlePostMessage(v, res, finished) ==
  CASE v = "server.js" -> Normalize(res, finished)
    [] v = "part_003" -> FallbackOk(res)
    [] OTHER -> res

\* the transport the handler calls handlePostMessage on
Invoked(found) == {found.t.tid}

\* app.post("/messages") of the session-based variants
PostMessagesSession(v, map, r, hp) ==
  LET key == SessionKey(v, r)
      found == Lookup(map, key)
  IN IF v = "part_005" /\ key = ""
     THEN SessionOutcome(NoSession(v, "Missing sessionId"), "no-session", {}, {})
     ELSE IF (v # "part_004" /\ key = "") \/ found.kind = "undefined"
     THEN SessionOutcome(NoSession(v, "No transport found for sessionId"),
                         "no-session", {}, {})
     ELSE IF found.kind = "inherited"
     THEN \* transport.handlePostMessage is not a function
          SessionOutcome(SessionCatch(v, NewRes), "catch", {}, {})
     ELSE IF hp.kind = "throws"
     THEN SessionOutcome(SessionCatch(v, NewRes), "catch", Invoked(found), {})
     ELSE SessionOutcome(AfterHandlePostMessage(v, HpWrites(hp), hp.finished),
                         "handled", Invoked(found), Dispatched(hp, r))

\* the response of an event stream that has started: head sent, left open
StreamOpen ==
  [NewRes EXCEPT !.headersSent = TRUE, !.wireStatus = 200,
                 !.ctype = "text/event-stream"]

\* catch (e) of GET /sse: part_004 only logs, the others answer 500 unless
\* the head has gone out
SseCatch(v, res) ==
  IF v = "part_004" \/ res.headersSent
  THEN res
  ELSE ResEnd(ResStatus(res, 500), "SSE error")

-----------------------------------------------------------------------------
(* POST /messages of patch v4 (part_002, second file) *)

\* the response as the interceptors see it: head is the status of the status
\* line once writeHead has stored it (0 before), ctype the Content-Type set
\* with setHeader, wire what has been handed to the socket
V4Res ==
  [statusCode |-> 200, head |-> 0, ctype |-> "", bytesWritten |-> 0,
   body |-> NoBody, flushed |-> FALSE, ended |-> FALSE, threw |-> FALSE]

\* res.writeHead = function patchedWriteHead(statusCode, ...rest)
V4WriteHead(st, code) ==
  LET c == IF code = 202 THEN 200 ELSE code
  IN [st EXCEPT !.statusCode = c, !.head = c]

\* ServerResponse._implicitHeader: this.writeHead(this.statusCode)
V4ImplicitHeader(st) == IF st.head = 0 THEN V4WriteHead(st, st.statusCode) ELSE st

\* res.write = function patchedWrite(chunk, ...rest)
V4Write(st, chunk) ==
  LET h == V4ImplicitHeader(st)
  IN [h EXCEPT !.bytesWritten = @ + Len(chunk), !.body = TextBody(chunk),
               !.flushed = TRUE]

\* origEnd.call(this, localChunk)
V4OrigEnd(st, body) ==
  LET h == V4ImplicitHeader(st)
  IN [h EXCEPT !.body = IF body = NoBody THEN @ ELSE body,
               !.flushed = TRUE, !.ended = TRUE]

\* res.end = function patchedEnd(chunk, ...rest); res.setHeader throws
\* ERR_HTTP_HEADERS_SENT once writeHead has stored the head
V4End(st, chunk) ==
  IF chunk = "" /\ st.bytesWritten = 0
  THEN IF st.ctype = "" /\ st.head # 0
       THEN [st EXCEPT !.threw = TRUE]
       ELSE LET s1 == [st EXCEPT
                         !.ctype = IF @ = "" THEN "application/json; charset=utf-8"
                                   ELSE @,
                         !.bytesWritten = 11,
                         !.statusCode = IF @ = 202 THEN 200 ELSE @]
            IN V4OrigEnd(s1, JsonBody(OkEnvelope))
  ELSE V4OrigEnd(st, IF chunk = "" THEN NoBody ELSE TextBody(chunk))

\* what the SDK transport's handlePostMessage does with the response, in
\* this order: an optional setHeader("Content-Type"), the status by
\* writeHead(202) or by assigning statusCode, an optional write, and end
\* with or without a chunk; or nothing at all; or it rejects
V4Ways ==
  {[ct |-> c, head |-> h, write |-> w, end |-> e] :
     c \in BOOLEAN, h \in {"none", "writeHead", "assign"}, w \in BOOLEAN,
     e \in {"empty", "chunk"}}
  \cup {[ct |-> FALSE, head |-> "none", write |-> FALSE, end |-> e] :
          e \in {"none", "throws"}}

NoV4Way == [ct |-> FALSE, head |-> "-", write |-> FALSE, end |-> "-"]

V4HandlePostMessage(way) ==
  LET s0 == IF way.ct THEN [V4Res EXCEPT !.ctype = "text/plain"] ELSE V4Res
      s1 == CASE way.head = "writeHead" -> V4WriteHead(s0, 202)
              [] way.head = "assign" -> [s0 EXCEPT !.statusCode = 202]
              [] OTHER -> s0
      s2 == IF way.write THEN V4Write(s1, "data") ELSE s1
  IN CASE way.end = "empty" -> V4End(s2, "")
       [] way.end = "chunk" -> V4End(s2, "Accepted")
       [] way.end = "throws" -> [s2 EXCEPT !.threw = TRUE]
       [] OTHER -> s2

\* after the await: the fallback body, or the catch block
V4AfterHandlePostMessage(st) ==
  IF st.threw
  THEN IF st.head = 0
       THEN V4OrigEnd([st EXCEPT !.statusCode = 500, !.ctype = "application/json; charset=utf-8"],
                      JsonBody(PlainErrorEnvelope("Internal error")))
       ELSE st
  ELSE IF st.head = 0 /\ ~st.ended
  THEN \* res.status(200).json({ ok: true }): the patched end gets a chunk
       V4OrigEnd([st EXCEPT !.statusCode = 200,
                            !.ctype = "application/json; charset=utf-8"],
                 JsonBody(OkEnvelope))
  ELSE st

\* the response the client sees
V4Wire(st) ==
  [NewRes EXCEPT !.statusCode = st.statusCode, !.headersSent = st.head # 0,
                 !.ended = st.ended,
                 !.wireStatus = IF st.flushed THEN st.head ELSE 0,
                 !.ctype = IF st.flushed THEN st.ctype ELSE "",
                 !.body = IF st.flushed THEN st.body ELSE NoBody,
                 !.sends = IF st.ended THEN 1 ELSE 0]

\* app.post("/messages") of patch v4
PostMessagesV4Handler(map, r, way, dispatched) ==
  LET key == SessionKey("v4", r)
      found == Lookup(map, key)
  IN IF key = "" \/ found.kind = "undefined"
     THEN SessionOutcome(NoSession("v4", "No transport found for sessionId"),
                         "no-session", {}, {})
     ELSE IF found.kind = "inherited"
     THEN SessionOutcome(SessionCatch("v4", NewRes), "catch", {}, {})
     ELSE LET st == V4AfterHandlePostMessage(V4HandlePostMessage(way))
          IN SessionOutcome(V4Wire(st), IF st.threw THEN "catch" ELSE "handled",
                            Invoked(found),
                            IF dispatched /\ r.method = Str("tools/call")
                            THEN ToolCallback(r.name) ELSE {})

-----------------------------------------------------------------------------
(* Preflight of server.js (first file), part_003 and patch v4 *)

\* the variants whose cors() is given allowedHeaders: (req, cb) => { ... }
MirroringVariants == {"server.js", "part_003", "v4"}

\* the global handler that echoes the requested headers and answers 204;
\* it is installed after cors() and express.json()
GlobalPreflight(r) ==
  LET echoed == [NewRes EXCEPT
                   !.allowHeaders = IF Truthy(r.requestHeaders)
                                    THEN r.requestHeaders.s ELSE "",
                   !.allowOrigin = "*"]
  IN Outcome(ResSendStatus(echoed, 204), "global-preflight", NoSdkOut)

\* app.use(cors({ origin: "*", ..., allowedHeaders: (req, cb) => ... })) on an
\* OPTIONS request: cors sets Access-Control-Allow-Origin and -Methods, then
\* hands the allowedHeaders option itself, a function it never calls, to
\* res.setHeader, which rejects a value whose text has line breaks; the
\* exception is answered by Express's final handler
CorsMirrorPreflight(r) ==
  LET f == FinalHandler(ErrorOf("TypeError",
             "Invalid character in header content [\"Access-Control-Allow-Headers\"]"))
  IN [f EXCEPT !.res.allowOrigin = "*", !.branch = "cors-preflight"]

\* the middleware chain for an OPTIONS request: cors() comes first and never
\* calls next() for a preflight
HandleOptions(r) ==
  LET c == CorsMirrorPreflight(r)
  IN IF c.res.ended THEN c ELSE GlobalPreflight(r)

-----------------------------------------------------------------------------
(* The SSE transport resolver and GET /sse of v6.4 (part_001), v6.5.3      *)
(* (part_004), v6.8.1 (part_000), v6.8.2 (server.js), v6.9.4 (part_006)    *)

ResolverVariants == {"v6.4", "v6.5.3", "v6.8.1", "v6.8.2", "v6.9.4"}

\* const candidates = [ ... ]
Candidates(v) ==
  IF v = "v6.4"
  THEN <<"@modelcontextprotocol/sdk/server/sse",
         "@modelcontextprotocol/sdk/server/transport/sse",
         "@modelcontextprotocol/sdk/transport/sse">>
  ELSE <<"@modelcontextprotocol/sdk/server/sse.js",
         "@modelcontextprotocol/sdk/server/transport/sse.js",
         "@modelcontextprotocol/sdk/transport/sse.js",
         "@modelcontextprotocol/sdk/server/sse",
         "@modelcontextprotocol/sdk/server/transport/sse",
         "@modelcontextprotocol/sdk/transport/sse">>

\* a function value exported under a name by the module at a path
Fn(path, name) == [t |-> "function", s |-> path \o "#" \o name, n |-> 0]

\* a module namespace, as far as the resolver reads it
NoModule == [SSEServerTransport |-> Undefined, default |-> Undefined, SSE |-> Undefined]

\* await import(p): the namespace, or a rejection
Imported(m) == [threw |-> FALSE, m |-> m, e |-> NoError]
ImportThrew(e) == [threw |-> TRUE, m |-> NoModule, e |-> e]
ModuleNotFound(p) == ErrorOf("Error [ERR_MODULE_NOT_FOUND]", "Cannot find module " \o p)

\* what importing a path can give, depending on the SDK that is installed
ImportOutcomes(p) ==
  {ImportThrew(ModuleNotFound(p))} \cup
  {Imported([SSEServerTransport |-> a, default |-> b, SSE |-> c]) :
     a \in {Undefined, Fn(p, "SSEServerTransport")},
     b \in {Undefined, Fn(p, "default")},
     c \in {Undefined, Fn(p, "SSE")}}

\* nothing has been imported yet; a path imported twice gives the same twice
NothingImported == [p \in {} |-> ImportThrew(NoError)]
Import(known, p) == IF p \in DOMAIN known THEN {known[p]} ELSE ImportOutcomes(p)
Learn(known, p, o) == [q \in DOMAIN known \cup {p} |-> IF q = p THEN o ELSE known[q]]

\* let sseCache = { ok: false, path: null, ctor: null, err: [] }
EmptySseCache == [ok |-> FALSE, path |-> Null, ctor |-> Null, err |-> <<>>]

\* m.SSEServerTransport || m.default || m.SSE
CtorOf(m) == OrElse(OrElse(m.SSEServerTransport, m.default), m.SSE)

\* sseCache.err.push(...)
PushErr(cache, text) == [cache EXCEPT !.err = Append(@, text)]

\* for (const p of candidates) { try { ... } catch (e) { ... } } return sseCache
\* from candidate i on; tried lists the paths imported by this call
RECURSIVE TryCandidates(_, _, _, _, _)
TryCandidates(cands, i, cache, known, tried) ==
  IF i > Len(cands)
  THEN {[sse |-> cache, known |-> known, tried |-> tried]}
  ELSE LET p == cands[i]
       IN UNION
            {LET ctor == CtorOf(o.m)
                 k2 == Learn(known, p, o)
                 t2 == Append(tried, p)
             IN IF o.threw
                THEN TryCandidates(cands, i + 1,
                       PushErr(cache, p \o ": " \o SliceTo(StringOfError(o.e), 180)),
                       k2, t2)
                ELSE IF Truthy(ctor)
                THEN {[sse |-> [ok |-> TRUE, path |-> Str(p), ctor |-> ctor,
                                err |-> <<>>],
                       known |-> k2, tried |-> t2]}
                ELSE TryCandidates(cands, i + 1,
                       PushErr(cache, "Found " \o p \o " but no SSEServerTransport export"),
                       k2, t2)
             : o \in Import(known, p)}

\* getSSEServerTransport(): what it returns is the cache object itself
GetSSEServerTransport(cands, cache, known) ==
  IF cache.ok
  THEN {[sse |-> cache, known |-> known, tried |-> <<>>]}
  ELSE TryCandidates(cands, 1, cache, known, <<>>)

\* setCors(res); v6.4 has app.use(cors()) instead
SetCors(v, res) ==
  [res EXCEPT !.allowOrigin = "*",
              !.allowHeaders =
                 CASE v = "v6.4" -> ""
                   [] v = "v6.5.3" -> "*"
                   [] OTHER -> "Content-Type, X-Session-Id, Authorization, Accept"]

\* { error: "SSE transport not available", err: sse.err }
SseUnavailableEnvelope(err) ==
  [EmptyEnvelope EXCEPT !.members = {"error", "err"},
                        !.error = "SSE transport not available", !.err = err]

TransportError == ErrorOf("Error", "transport failed")

\* new sse.ctor(...) or mcpServer.connect(transport) threw: v6.8.x catch it
\* and answer 500 as long as the head is unsent; v6.4 and v6.5.3 let the
\* async handler reject, which Express 4 leaves unanswered and Express 5
\* hands to its final handler
SseRejected(v, res, e) ==
  IF v \in {"v6.4", "v6.5.3"}
  THEN {res, ResSend(ResStatus(res, 500), StringOfError(e))}
  ELSE {IF res.headersSent
        THEN ResEnd(res, "")
        ELSE ResJson(ResStatus(res, 500),
                     PlainErrorEnvelope(SliceTo(StringOfError(e), 300)))}

\* the started event stream, with the headers set before it started
SseStarted(res) ==
  [res EXCEPT !.headersSent = TRUE, !.wireStatus = 200, !.ctype = "text/event-stream"]

\* app.get("/sse", async (req, res) => { ... }) once the resolver returned sse
GetSseHandler(v, sse, how) ==
  LET res == SetCors(v, NewRes)
  IN IF ~sse.ok
     THEN {ResJson(ResStatus(res, 500), SseUnavailableEnvelope(sse.err))}
     ELSE IF how = "connected"
     THEN {SseStarted(res)}
     ELSE SseRejected(v, res, TransportError)

\* does GET /sse get as far as new sse.ctor(...) returning a transport
Constructs(sse, how) == sse.ok /\ how \in {"connected", "connect-throws"}

-----------------------------------------------------------------------------
(* The inputs the model draws from *)

RpcVariants == {"v6.8.1", "v6.8.2", "v6.9.4"}
SessionVariants == {"part_004", "part_005", "part_003", "server.js", "v4"}
Variants == RpcVariants \cup SessionVariants \cup {"v6.4", "v6.5.3"}

SdkHelpers == {"none", "handleHTTP", "handleRequest"}

Methods ==
  {Undefined, Str(""), Str("initialize"), Str("tools/list"), Str("tools/call"),
   Str("actions/list"), Str("actions/call"), Str("notifications/initialized"),
   Str("resources/list")}

Ids == {Undefined, Null, Num(0), Num(1), Str("a")}

Names == {Undefined, Str(""), Str("search"), Str(" search "), Str("db.rows")}

Queries == {Undefined, Str("cats"), Str(" cats "), Str("  ")}

TopKs == {Undefined, Num(0), Num(-1), Num(2), Num(11), Str("7"), Str("abc")}

ArgVals ==
  {UndefinedArgs, NullArgs} \cup {ArgsObject(q, k) : q \in Queries, k \in TopKs}

CallMethods == {Str("tools/call"), Str("actions/call")}

\* JSON bodies: params matter to the call methods only
RpcBodies ==
  {[NoReq EXCEPT !.method = m, !.id = i, !.bodyKind = "json"] :
     m \in Methods \ CallMethods, i \in Ids}
  \cup
  {[NoReq EXCEPT !.method = m, !.id = i, !.name = n, !.args = a,
                 !.bodyKind = "json"] :
     m \in CallMethods, i \in Ids, n \in Names, a \in ArgVals}

\* lengths of the message of an error the SDK rejects with
ErrMsgLens == {5, 293, 294, 400}

\* what a call of the SDK helper can come to
SdkOuts ==
  {[kind |-> k, e |-> NoError] : k \in {"nullish", "result", "error", "cyclic"}}
  \cup {[kind |-> "throw", e |-> ErrorOf("Error", Rep("x", n))] : n \in ErrMsgLens}

\* JSON values of the arguments query parameter of GET /actions/call
RestArgVals == ArgVals \ {UndefinedArgs}

\* the arguments query parameter: absent, not JSON, or JSON text
ArgTexts == {"absent", "invalid", "json"}

\* where the REST routes are mounted
Prefixes == {"", "/sse", "/messages"}

\* the sessionId query parameter of POST /messages
SessionIdInputs ==
  {Undefined, Str(""), Str("nope"), Str("constructor")}
  \cup {Str(SidOf(n)) : n \in 1..MaxSessions}

\* the messages posted to a session
SessionBodies ==
  {[NoReq EXCEPT !.method = Str("initialize"), !.id = Num(1), !.bodyKind = "json"],
   [NoReq EXCEPT !.method = Str("notifications/initialized"), !.bodyKind = "json"]}
  \cup
  {[NoReq EXCEPT !.method = Str("tools/call"), !.id = Num(1), !.name = n,
                 !.bodyKind = "json"] :
     n \in {Str("search"), Str("db.rows"), Str("sql.query")}}

\* what handlePostMessage of the SDK's transport can come to: it answers
\* 202, 400 or 500 itself, rejects, or returns without answering; "finished"
\* says whether the response's finish event has fired when the handler
\* resumes, "dispatched" whether the SDK ran the tool the message calls
HpKinds == {"accepted", "invalid", "not-established", "throws", "silent"}
HpOuts ==
  {[kind |-> k, finished |-> f, dispatched |-> d] :
     k \in HpKinds, f \in BOOLEAN, d \in BOOLEAN}
NoHp == [kind |-> "not-called", finished |-> FALSE, dispatched |-> FALSE]

\* what GET /sse of a session-based variant can come to
SseOuts == {"connected", "connect-throws", "ctor-throws"}

HttpMethods == {"GET", "POST", "PUT", "HEAD", "OPTIONS"}

\* paths an OPTIONS request is sent to, and its Access-Control-Request-Headers
OptionsPaths == {"/", "/sse", "/messages", "/nope"}
RequestHeaders == {Undefined, Str("content-type"), Str("openai-beta, content-type")}

\* raw bodies sent to /messages of v6.4
V64Bodies ==
  {NoReq,
   [NoReq EXCEPT !.bodyKind = "json"],
   [NoReq EXCEPT !.bodyKind = "json", !.method = Str("initialize"), !.id = Num(1)],
   [NoReq EXCEPT !.bodyKind = "malformed"]}

\* values of Date.now()
Clock == {1000, 1001}

NoTrace ==
  [handler |-> "", branch |-> "", sdk |-> "not-called", escaped |-> FALSE,
   errLen |-> 0, hpm |-> {}, keys |-> {}, way |-> NoV4Way,
   sse |-> EmptySseCache, tried |-> <<>>]

TraceOf(handler, o) ==
  [NoTrace EXCEPT !.handler = handler, !.branch = o.branch, !.sdk = o.sdk,
                  !.escaped = o.escaped, !.errLen = o.errLen]

-----------------------------------------------------------------------------
(* The state machine *)

Init ==
  /\ variant \in Variants
  /\ sdkHelper \in SdkHelpers
  /\ req = NoReq
  /\ resp = NewRes
  /\ trace = NoTrace
  /\ sseTransports = [k \in {} |-> NoTransport]
  /\ opened = {}
  /\ closed = {}
  /\ nextSid = 0
  /\ dbCalled = {}
  /\ sdkLayout = NothingImported
  /\ sseCache = EmptySseCache

\* app.post("/messages", handleJsonRpc); app.post("/sse", handleJsonRpc)
\* Requests are served one at a time: the next one is taken up once the
\* response to the last one has gone out to the client.
Idle == req = NoReq

\* the client has read the response; the exchange is over
Deliver ==
  /\ ~Idle
  /\ req' = NoReq
  /\ resp' = NewRes
  /\ trace' = NoTrace
  /\ UNCHANGED <<sdkLayout, sseCache, variant, sdkHelper, sseTransports, opened, closed, nextSid,
                 dbCalled>>

PostJsonRpc ==
  /\ variant \in RpcVariants
  /\ Idle
  /\ \E path \in {"/messages", "/sse"}, r0 \in RpcBodies, out0 \in SdkOuts :
       LET r == [r0 EXCEPT !.http = "POST", !.path = path]
           out == IF ConsultsSdk(variant, sdkHelper, r) THEN out0 ELSE NoSdkOut
           o == HandleJsonRpc(variant, sdkHelper, out, r)
       IN /\ req' = r
          /\ resp' = o.res
          /\ trace' = TraceOf("handleJsonRpc", o)
  /\ UNCHANGED <<sdkLayout, sseCache, variant, sdkHelper, sseTransports, opened, closed, nextSid,
                 dbCalled>>

\* app.post("/messages") of v6.5.3
PostMessagesV653 ==
  /\ variant = "v6.5.3"
  /\ Idle
  /\ \E r0 \in RpcBodies, out0 \in SdkOuts :
       LET r == [r0 EXCEPT !.http = "POST", !.path = "/messages"]
           out == IF HelperPresent(sdkHelper) THEN out0 ELSE NoSdkOut
           o == HandleMessagesV653(sdkHelper, out, r)
       IN /\ req' = r
          /\ resp' = o.res
          /\ trace' = TraceOf("messages-v6.5.3", o)
  /\ UNCHANGED <<sdkLayout, sseCache, variant, sdkHelper, sseTransports, opened, closed, nextSid,
                 dbCalled>>

\* app.get("/actions/call") of v6.9.4, at the root and under the aliases
RestCallGetRoute ==
  /\ variant = "v6.9.4"
  /\ Idle
  /\ \E prefix \in Prefixes, n \in Names, at \in ArgTexts, a \in RestArgVals :
       LET r == [NoReq EXCEPT !.http = "GET", !.path = prefix \o "/actions/call",
                              !.name = n, !.argText = at,
                              !.args = IF at = "json" THEN a ELSE UndefinedArgs]
           o == RestCallGet(r)
       IN /\ req' = r
          /\ resp' = o.res
          /\ trace' = TraceOf("restCallHandler", o)
  /\ UNCHANGED <<sdkLayout, sseCache, variant, sdkHelper, sseTransports, opened, closed, nextSid,
                 dbCalled>>

\* app.post("/actions/call") of v6.9.4, at the root and under the aliases
RestCallPostRoute ==
  /\ variant = "v6.9.4"
  /\ Idle
  /\ \E prefix \in Prefixes, n \in Names, a \in ArgVals :
       LET r == [NoReq EXCEPT !.http = "POST", !.path = prefix \o "/actions/call",
                              !.name = n, !.args = a, !.bodyKind = "json"]
           o == RestCallPost(r)
       IN /\ req' = r
          /\ resp' = o.res
          /\ trace' = TraceOf("restCallHandler", o)
  /\ UNCHANGED <<sdkLayout, sseCache, variant, sdkHelper, sseTransports, opened, closed, nextSid,
                 dbCalled>>

\* GET and POST of /actions and /actions/list of v6.9.4
RestListRoute ==
  /\ variant = "v6.9.4"
  /\ Idle
  /\ \E http \in HttpMethods, prefix \in Prefixes,
        route \in {"/actions", "/actions/list"} :
       LET o == RestList(http, prefix, route)
       IN /\ req' = [NoReq EXCEPT !.http = http, !.path = prefix \o route]
          /\ resp' = o.res
          /\ trace' = TraceOf("restListHandler", o)
  /\ UNCHANGED <<sdkLayout, sseCache, variant, sdkHelper, sseTransports, opened, closed, nextSid,
                 dbCalled>>

\* HEAD, OPTIONS and PUT of /actions/call of v6.9.4
RestCallOtherRoute ==
  /\ variant = "v6.9.4"
  /\ Idle
  /\ \E http \in HttpMethods \ {"GET", "POST"}, prefix \in Prefixes :
       LET o == RestCallOther(http)
       IN /\ req' = [NoReq EXCEPT !.http = http, !.path = prefix \o "/actions/call"]
          /\ resp' = o.res
          /\ trace' = TraceOf("restCallOther", o)
  /\ UNCHANGED <<sdkLayout, sseCache, variant, sdkHelper, sseTransports, opened, closed, nextSid,
                 dbCalled>>

\* any request to /messages of v6.4
MessagesV64 ==
  /\ variant = "v6.4"
  /\ Idle
  /\ \E http \in HttpMethods, b \in V64Bodies, now \in Clock :
       LET o == HandleMessagesV64(http, b.bodyKind, now)
       IN /\ req' = [b EXCEPT !.http = http, !.path = "/messages"]
          /\ resp' = o.res
          /\ trace' = TraceOf("messages-v6.4", o)
  /\ UNCHANGED <<sdkLayout, sseCache, variant, sdkHelper, sseTransports, opened, closed, nextSid,
                 dbCalled>>

\* app.get("/sse") of the session-based variants
GetSse ==
  /\ variant \in SessionVariants
  /\ Idle
  /\ nextSid < MaxSessions
  /\ \E how \in SseOuts :
       LET t == TransportOf(nextSid + 1)
       IN /\ req' = [NoReq EXCEPT !.http = "GET", !.path = "/sse"]
          /\ trace' = [NoTrace EXCEPT !.handler = "GET /sse", !.branch = how,
                                      !.keys = DOMAIN sseTransports]
          /\ IF how = "ctor-throws"
             THEN /\ resp' = SseCatch(variant, NewRes)
                  /\ UNCHANGED <<sseTransports, opened, nextSid>>
             ELSE /\ sseTransports' = Register(sseTransports, t)
                  /\ opened' = opened \cup {t.sessionId}
                  /\ nextSid' = nextSid + 1
                  /\ resp' = IF how = "connected"
                             THEN StreamOpen
                             ELSE SseCatch(variant, NewRes)
  /\ UNCHANGED <<sdkLayout, sseCache, variant, sdkHelper, closed, dbCalled>>

\* res.on("close", ...) of a stream opened by GET /sse
SseClose ==
  /\ \E n \in 1..nextSid :
       LET t == TransportOf(n)
       IN /\ t.sessionId \in opened \ closed
          /\ sseTransports' = Unregister(sseTransports, t)
          /\ closed' = closed \cup {t.sessionId}
  /\ UNCHANGED <<sdkLayout, sseCache, variant, sdkHelper, req, resp, trace, opened, nextSid, dbCalled>>

\* app.post("/messages") of the session-based variants
PostMessages ==
  /\ variant \in SessionVariants \ {"v4"}
  /\ Idle
  /\ \E r0 \in SessionBodies, sid \in SessionIdInputs, hp0 \in HpOuts :
       LET r == [r0 EXCEPT !.http = "POST", !.path = "/messages", !.sessionId = sid]
           real == Lookup(sseTransports, SessionKey(variant, r)).kind = "transport"
           writes == hp0.kind \in {"accepted", "invalid", "not-established"}
           hp == IF real
                 THEN [hp0 EXCEPT
                         !.finished = @ /\ writes /\ variant = "server.js",
                         !.dispatched = @ /\ hp0.kind = "accepted"
                                          /\ ToolCallback(r.name) # {}]
                 ELSE NoHp
           o == PostMessagesSession(variant, sseTransports, r, hp)
       IN /\ req' = r
          /\ resp' = o.res
          /\ trace' = [TraceOf("POST /messages", o) EXCEPT
                         !.sdk = hp.kind, !.hpm = o.hpm,
                         !.keys = DOMAIN sseTransports]
          /\ dbCalled' = dbCalled \cup o.db
  /\ UNCHANGED <<sdkLayout, sseCache, variant, sdkHelper, sseTransports, opened, closed, nextSid>>

\* an OPTIONS request to server.js (first file), part_003 or patch v4
Preflight ==
  /\ variant \in MirroringVariants
  /\ Idle
  /\ \E path \in OptionsPaths, h \in RequestHeaders, sid \in SessionIdInputs :
       LET r == [NoReq EXCEPT !.http = "OPTIONS", !.path = path,
                              !.requestHeaders = h, !.sessionId = sid]
           o == HandleOptions(r)
       IN /\ req' = r
          /\ resp' = o.res
          /\ trace' = TraceOf("OPTIONS", o)
  /\ UNCHANGED <<sdkLayout, sseCache, variant, sdkHelper, sseTransports, opened, closed, nextSid,
                 dbCalled>>

\* app.post("/messages") of patch v4
PostMessagesV4 ==
  /\ variant = "v4"
  /\ Idle
  /\ \E r0 \in SessionBodies, sid \in SessionIdInputs, w0 \in V4Ways, d0 \in BOOLEAN :
       LET r == [r0 EXCEPT !.http = "POST", !.path = "/messages", !.sessionId = sid]
           real == Lookup(sseTransports, SessionKey(variant, r)).kind = "transport"
           way == IF real THEN w0 ELSE NoV4Way
           d == real /\ d0 /\ ToolCallback(r.name) # {}
           o == PostMessagesV4Handler(sseTransports, r, way, d)
       IN /\ req' = r
          /\ resp' = o.res
          /\ trace' = [TraceOf("POST /messages", o) EXCEPT
                         !.hpm = o.hpm, !.keys = DOMAIN sseTransports,
                         !.way = way]
          /\ dbCalled' = dbCalled \cup o.db
  /\ UNCHANGED <<sdkLayout, sseCache, variant, sdkHelper, sseTransports, opened, closed, nextSid>>

\* app.get("/sse") of the variants that resolve the transport at run time
GetSseResolved ==
  /\ variant \in ResolverVariants
  /\ Idle
  /\ nextSid < MaxSessions
  /\ Len(sseCache.err) < MaxFailedResolves * Len(Candidates(variant))
  /\ \E r \in GetSSEServerTransport(Candidates(variant), sseCache, sdkLayout),
        how \in SseOuts :
       /\ sseCache' = r.sse
       /\ sdkLayout' = r.known
       /\ req' = [NoReq EXCEPT !.http = "GET", !.path = "/sse"]
       /\ trace' = [NoTrace EXCEPT !.handler = "GET /sse resolved",
                                   !.branch = IF r.sse.ok THEN how ELSE "no-transport",
                                   !.sse = r.sse, !.tried = r.tried]
       /\ resp' \in GetSseHandler(variant, r.sse, how)
       /\ nextSid' = IF Constructs(r.sse, how) THEN nextSid + 1 ELSE nextSid
  /\ UNCHANGED <<variant, sdkHelper, sseTransports, opened, closed, dbCalled>>

Next ==
  \/ RestCallOtherRoute
  \/ Preflight
  \/ PostMessagesV4
  \/ PostJsonRpc
  \/ PostMessagesV653
  \/ RestCallGetRoute
  \/ RestCallPostRoute
  \/ RestListRoute
  \/ MessagesV64
  \/ GetSse
  \/ SseClose
  \/ PostMessages
  \/ Deliver

Spec == Init /\ [][Next]_vars

\* the resolver's state is read and written by GET /sse alone
NextSse ==
  \/ GetSseResolved
  \/ Deliver

SpecSse == Init /\ [][NextSse]_vars

-----------------------------------------------------------------------------
(* Vocabulary of the properties *)

Env == resp.body.json
IsJson == resp.body.kind = "json"

\* the branches of the handlers that answer an error
ErrorBranches ==
  {"no-session", "default", "tools/call:notfound", "actions/call:notfound",
   "rest/call:notfound", "sdk-unavailable", "catch", "uncaught"}

\* a 200 response whose JSON body carries an error code and message
ErrorEnvelope200 ==
  /\ resp.wireStatus = 200
  /\ IsJson
  /\ "error" \in Env.members
  /\ Env.code # 0
  /\ Env.message # ""

KnownMethods ==
  {Str("initialize"), Str("tools/list"), Str("tools/call"), Str("actions/list"),
   Str("actions/call")}

\* the handler's own if-chain answered: no SDK helper was consulted, or the
\* helper of v6.8.2 / v6.9.4 returned nothing
AnsweredByFallback ==
  \/ trace.sdk = "not-called"
  \/ (trace.sdk = "nullish" /\ variant # "v6.8.1")

-----------------------------------------------------------------------------
(* C1 *)

-----------------------------------------------------------------------------
(* C2 *)

\* C2: in handleJsonRpc, when a step throws (the SDK helper rejects, or
\* serialising its output throws), the client receives exactly one response,
\* with status 200 and a JSON-RPC envelope whose error has code -32000 and a
\* message of at most 300 characters, and the exception does not escape.
C2_ThrowIsAnswered ==
  (trace.handler = "handleJsonRpc" /\ trace.sdk \in {"throw", "cyclic"})
  => /\ resp.sends = 1
     /\ resp.wireStatus = 200
     /\ IsJson
     /\ {"jsonrpc", "error"} \subseteq Env.members
     /\ "result" \notin Env.members
     /\ Env.code = -32000
     /\ Len(Env.message) <= 300
     /\ ~trace.escaped

\* the SDK helper rejected with an error longer than 300 characters
C2_Witness ==
  /\ trace.handler = "handleJsonRpc"
  /\ trace.sdk = "throw"
  /\ trace.errLen > 300
  /\ Len(Env.message) = 300

-----------------------------------------------------------------------------
(* C3 *)

\* C3: for every POST /messages or POST /sse request with a non-null id the
\* response body is a JSON envelope with exactly one of result and error.
C3_ExactlyOneOfResultAndError ==
  (/\ trace.handler \in {"handleJsonRpc", "messages-v6.5.3"}
   /\ ~IsNotification(req))
  => /\ IsJson
     /\ Cardinality(Env.members \cap {"result", "error"}) = 1

-----------------------------------------------------------------------------
(* C4 *)

\* C4: a request with a non-null id whose method is none of the five known
\* ones and which the SDK does not answer gets status 200 and an error
\* envelope with code -32601, message "Method <method> not found" and the
\* request's id; a request without a method is reported as "<no-method>".
C4_MethodNotFound ==
  (/\ trace.handler = "handleJsonRpc"
   /\ ~IsNotification(req)
   /\ OrElse(req.method, Str("<no-method>")) \notin KnownMethods
   /\ trace.sdk \in {"not-called", "nullish"})
  => /\ resp.wireStatus = 200
     /\ IsJson
     /\ "error" \in Env.members
     /\ Env.code = -32601
     /\ Env.id = req.id
     /\ Env.message =
          "Method " \o ToStr(OrElse(req.method, Str("<no-method>"))) \o " not found"
     /\ (req.method = Undefined => Env.message = "Method <no-method> not found")

-----------------------------------------------------------------------------
(* C5 *)

CallKind == IF req.method = Str("tools/call") THEN "Tool " ELSE "Action "

NotFoundAnswer ==
  /\ resp.wireStatus = 200
  /\ IsJson
  /\ "error" \in Env.members
  /\ Env.code = -32601
  /\ Env.message = CallKind \o ToStr(req.name) \o " not found"

\* C5 (as claimed): tools/call and actions/call with any name other than
\* "search" return 200 with error -32601 "Tool|Action <name> not found", and
\* return a result only when the name is exactly "search".
C5_UnknownNameNotFound ==
  (/\ trace.handler = "handleJsonRpc"
   /\ req.method \in {Str("tools/call"), Str("actions/call")})
  => /\ (req.name # Str("search") => NotFoundAnswer)
     /\ ((IsJson /\ "result" \in Env.members) => req.name = Str("search"))

\* C5 (amended): a tools/call or actions/call request with a non-null id that
\* the handler's own branch answers (no SDK helper, the helper of v6.8.2 or
\* v6.9.4 returned nothing, or v6.9.4's short-circuited tools/call) returns
\* 200 with error -32601 "Tool|Action <name> not found" for every name other
\* than "search", and a result exactly when the name is "search".
C5_FallbackNotFound ==
  (/\ trace.handler = "handleJsonRpc"
   /\ req.method \in {Str("tools/call"), Str("actions/call")}
   /\ ~IsNotification(req)
   /\ AnsweredByFallback)
  => /\ (req.name # Str("search") => NotFoundAnswer)
     /\ (req.name = Str("search") <=>
           (IsJson /\ "result" \in Env.members /\ "error" \notin Env.members))

\* a call of a name that only differs from "search" by blanks was refused
C5_Witness ==
  /\ trace.handler = "handleJsonRpc"
  /\ req.method = Str("actions/call")
  /\ req.name = Str(" search ")
  /\ AnsweredByFallback
  /\ NotFoundAnswer

-----------------------------------------------------------------------------
(* C6 *)

\* the keys of the map are the sessions opened and not yet closed, and each
\* key leads to the transport of that session
KeysAreOpenStreams ==
  /\ DOMAIN sseTransports = opened \ closed
  /\ \A k \in DOMAIN sseTransports : sseTransports[k].sessionId = k

\* an open adds its own session and leaves the other entries as they were
OpenAddsOwn ==
  opened' # opened =>
    \E s \in opened' \ opened :
      /\ opened' = opened \cup {s}
      /\ DOMAIN sseTransports' = DOMAIN sseTransports \cup {s}
      /\ sseTransports'[s].sessionId = s
      /\ \A k \in DOMAIN sseTransports \ {s} : sseTransports'[k] = sseTransports[k]

\* a close removes its own session and leaves the other entries as they were
CloseRemovesOwn ==
  closed' # closed =>
    \E s \in closed' \ closed :
      /\ closed' = closed \cup {s}
      /\ DOMAIN sseTransports' = DOMAIN sseTransports \ {s}
      /\ \A k \in DOMAIN sseTransports' : sseTransports'[k] = sseTransports[k]

\* C6: in the session-based variants, after any sequence of GET /sse opens and
\* connection closes, the keys of sseTransports are exactly the session ids of
\* the streams opened and not yet closed; an open adds exactly its own
\* session, a close removes exactly its own session and leaves every other
\* entry unchanged.
C6_MapTracksOpenStreams ==
  /\ [](KeysAreOpenStreams)
  /\ [][OpenAddsOwn /\ CloseRemovesOwn]_vars

\* one stream has closed while another one is still open
C6_Witness ==
  /\ variant \in SessionVariants
  /\ closed # {}
  /\ DOMAIN sseTransports # {}
  /\ DOMAIN sseTransports = opened \ closed

-----------------------------------------------------------------------------
(* C7 *)

\* C7: in the session-based variants a POST /messages whose sessionId is
\* missing, empty or not a key of sseTransports is answered 400 and no
\* transport's handlePostMessage is invoked; a POST with a registered
\* sessionId invokes handlePostMessage on exactly the transport created by
\* the GET /sse that produced that session id.
C7_SessionLookup ==
  trace.handler = "POST /messages" =>
    IF \/ req.sessionId = Undefined
       \/ req.sessionId = Str("")
       \/ req.sessionId.s \notin trace.keys
    THEN resp.wireStatus = 400 /\ trace.hpm = {}
    ELSE trace.hpm = {n \in 1..MaxSessions : SidOf(n) = req.sessionId.s}

-----------------------------------------------------------------------------
(* C8 *)

\* the two texts the stub search answers with
IsStubText(t) ==
  \/ t = "Search (stub): no query provided."
  \/ (Len(t) > 20 /\ SubSeq(t, 1, 20) = "Search results for \"")

\* C8 (as claimed): whatever sequence of requests is served, no handler
\* issues a query through the database client.
C8_NeverQueries == dbCalled = {}

\* a step that issues a query is a tools/call of db.rows or sql.query posted
\* to a registered session, and issues that tool's query
QueriesOnlyFromSessionTools ==
  dbCalled' # dbCalled =>
    /\ variant \in SessionVariants
    /\ trace'.handler = "POST /messages"
    /\ trace'.hpm # {}
    /\ req'.method = Str("tools/call")
    /\ \/ req'.name = Str("db.rows") /\ dbCalled' = dbCalled \cup {"from"}
       \/ req'.name = Str("sql.query") /\ dbCalled' = dbCalled \cup {"rpc"}

\* the search of handleJsonRpc and of the REST shim answers stub text
SearchAnswersStub ==
  (/\ trace.handler \in {"handleJsonRpc", "restCallHandler"}
   /\ IsJson
   /\ Env.result.kind = "content")
  => IsStubText(Env.result.text)

\* C8 (amended): in v6.4, v6.5.3, v6.8.1, v6.8.2 and v6.9.4 no handler issues
\* a query through the database client and the search tool or action returns
\* stub text; in the session-based variants the only queries are those of
\* the registered tools db.rows (supabase.from) and sql.query (supabase.rpc),
\* issued when a tools/call for them is posted to a registered session.
C8_OnlySessionToolsQuery ==
  /\ [](SearchAnswersStub /\ (variant \notin SessionVariants => dbCalled = {}))
  /\ [][QueriesOnlyFromSessionTools]_vars

\* both registered tools have queried the database
C8_Witness ==
  /\ variant \in SessionVariants
  /\ trace.handler = "POST /messages"
  /\ req.name = Str("sql.query")
  /\ dbCalled = {"from", "rpc"}

-----------------------------------------------------------------------------
(* C9 *)

\* the JSON-RPC request with the name and arguments of the REST request
RpcTwin(m) ==
  [NoReq EXCEPT !.http = "POST", !.path = "/messages", !.bodyKind = "json",
                !.method = Str(m), !.id = Num(1), !.name = req.name,
                !.args = req.args]

\* what the built-in JSON-RPC branch of v6.9.4 answers to it
RpcTwinAnswer(m) == Fallbacks("v6.9.4", RpcTwin(m), NoSdkOut).res.body.json

HasResult(env) == "result" \in env.members

\* the REST answer and the JSON-RPC answer agree on whether the name is
\* found and on the result member
MirrorsRpcCall ==
  /\ (IsJson /\ HasResult(Env)) <=> HasResult(RpcTwinAnswer("actions/call"))
  /\ (IsJson /\ HasResult(Env)) => Env.result = RpcTwinAnswer("actions/call").result

MirrorsRpcList ==
  (trace.handler = "restListHandler" /\ trace.branch = "rest/list")
  => /\ IsJson
     /\ HasResult(Env)
     /\ Env.result = RpcTwinAnswer("actions/list").result
     /\ Env.result.defs = <<SEARCH_ACTION_DEF>>

\* C9 (as claimed): for every name and arguments, the result member returned
\* by GET or POST /actions/call equals the result member returned by a
\* JSON-RPC actions/call with the same name and arguments, /actions/list
\* returns the same single action definition as JSON-RPC actions/list, and
\* both agree on which names are found.
C9_RestMirrorsRpc ==
  /\ trace.handler = "restCallHandler" => MirrorsRpcCall
  /\ MirrorsRpcList

\* the trimmed name of the GET route is the name as sent
NameUntrimmed ==
  req.name.t = "string" => Trim(req.name.s) = req.name.s

\* C9 (amended): POST /actions/call, and GET /actions/call whose name has no
\* surrounding blanks and whose arguments parameter is not the JSON text
\* null, return the result member of the built-in JSON-RPC actions/call
\* answer for the same name and arguments and agree with it on which names
\* are found; GET trims the name before comparing it, and answers 500 when
\* the name is "search" and arguments is null; /actions/list returns the
\* single action definition of the built-in JSON-RPC actions/list.
C9_RestMirrorsFallback ==
  /\ (/\ trace.handler = "restCallHandler"
      /\ \/ req.http = "POST"
         \/ (req.http = "GET" /\ NameUntrimmed /\ req.args.t # "null"))
     => MirrorsRpcCall
  /\ (/\ trace.handler = "restCallHandler"
      /\ req.http = "GET"
      /\ req.name.t = "string"
      /\ Trim(req.name.s) = "search")
     => IF req.args.t = "null"
        THEN resp.wireStatus = 500
        ELSE resp.wireStatus = 200 /\ HasResult(Env)
  /\ MirrorsRpcList

\* a POST /actions/call of search with a query has been answered
C9_Witness ==
  /\ trace.handler = "restCallHandler"
  /\ req.http = "POST"
  /\ req.name = Str("search")
  /\ req.args.t = "object"
  /\ req.args.query = Str("cats")
  /\ HasResult(Env)
  /\ Env.result = RpcTwinAnswer("actions/call").result

-----------------------------------------------------------------------------
(* C10 *)

\* C10: in v6.4 every request to /messages, whatever its HTTP method and
\* body, is answered with status 200, Content-Type application/json and a
\* non-empty body containing a result member.
C10_AlwaysJsonResult ==
  trace.handler = "messages-v6.4" =>
    /\ resp.wireStatus = 200
    /\ Len(resp.ctype) >= 16
    /\ SubSeq(resp.ctype, 1, 16) = "application/json"
    /\ IsJson
    /\ HasResult(Env)

-----------------------------------------------------------------------------
(* C11 *)

\* C11: in server.js's session variant a POST /messages to a registered
\* session that the SDK accepts (answering 202 itself, or not answering) is
\* received by the client with status 200.
C11_NormalizedTo200 ==
  (/\ variant = "server.js"
   /\ trace.handler = "POST /messages"
   /\ trace.branch = "handled"
   /\ trace.sdk \in {"accepted", "silent"})
  => resp.wireStatus = 200

-----------------------------------------------------------------------------
(* C12 *)

\* the SDK transport handed no body to write or end
V4NoSdkBody == ~trace.way.write /\ trace.way.end # "chunk"

\* C12: in patch v4, for a POST /messages with a registered session,
\* whichever way the SDK transport writes its response (writeHead(202),
\* assigning statusCode 202, write, end with or without a chunk, or not
\* responding at all), the client receives status 200 and a non-empty body,
\* {"ok":true} when the SDK supplied none.
C12_Forced200NonEmpty ==
  (/\ variant = "v4"
   /\ trace.handler = "POST /messages"
   /\ trace.hpm # {}
   /\ trace.way.end # "throws")
  => /\ resp.ended
     /\ resp.wireStatus = 200
     /\ resp.body.kind # "none"
     /\ (V4NoSdkBody => resp.body = JsonBody(OkEnvelope))

-----------------------------------------------------------------------------
(* C13 *)

\* C13: in v6.8.2 and v6.9.4 an initialize request with a non-null id is
\* answered by the server itself, before and regardless of any SDK helper,
\* with status 200, the request's id, protocolVersion "2024-11-05" and
\* capabilities containing both tools and actions.search; the SDK is never
\* consulted for initialize.
C13_ForcedInitialize ==
  (/\ variant \in {"v6.8.2", "v6.9.4"}
   /\ trace.handler = "handleJsonRpc"
   /\ req.method = Str("initialize")
   /\ ~IsNotification(req))
  => /\ resp.wireStatus = 200
     /\ resp.sends = 1
     /\ IsJson
     /\ HasResult(Env)
     /\ "error" \notin Env.members
     /\ Env.id = req.id
     /\ Env.result.protocolVersion = "2024-11-05"
     /\ {"tools", "actions.search"} \subseteq Env.result.capabilities
     /\ trace.sdk = "not-called"

\* initialize with id 0 answered although an SDK helper is present
C13_Witness ==
  /\ variant \in {"v6.8.2", "v6.9.4"}
  /\ sdkHelper = "handleHTTP"
  /\ trace.handler = "handleJsonRpc"
  /\ req.method = Str("initialize")
  /\ req.id = Num(0)
  /\ Env.id = Num(0)
  /\ Env.result.protocolVersion = "2024-11-05"

-----------------------------------------------------------------------------
(* C14 *)

\* C14: in v6.9.4 tools/list and tools/call with a non-null id are answered
\* before the SDK: tools/list always returns a list of exactly one tool,
\* named "search", tools/call the handler's own answer, and the SDK helper
\* is never invoked for them, so the SDK cannot produce an empty tool list.
C14_ToolsShortCircuited ==
  (/\ variant = "v6.9.4"
   /\ trace.handler = "handleJsonRpc"
   /\ req.method \in {Str("tools/list"), Str("tools/call")}
   /\ ~IsNotification(req))
  => /\ trace.sdk = "not-called"
     /\ resp.wireStatus = 200
     /\ resp.sends = 1
     /\ IsJson
     /\ Env.id = req.id
     /\ req.method = Str("tools/list") =>
          /\ HasResult(Env)
          /\ "error" \notin Env.members
          /\ Env.result.kind = "tools"
          /\ Len(Env.result.defs) = 1
          /\ Env.result.defs[1].name = "search"
     /\ req.method = Str("tools/call") =>
          trace.branch \in {"tools/call:found", "tools/call:notfound"}

\* tools/list answered with the one tool although an SDK helper is present
C14_Witness ==
  /\ variant = "v6.9.4"
  /\ sdkHelper = "handleRequest"
  /\ trace.handler = "handleJsonRpc"
  /\ req.method = Str("tools/list")
  /\ ~IsNotification(req)
  /\ Len(Env.result.defs) = 1
  /\ Env.result.defs[1] = SEARCH_TOOL_DEF

-----------------------------------------------------------------------------
(* C15 *)

-----------------------------------------------------------------------------
(* C16 *)

\* C16: in server.js's first variant (and part_003) every OPTIONS request
\* to any path is answered 204 with Access-Control-Allow-Origin "*" and,
\* when the request carries Access-Control-Request-Headers, with
\* Access-Control-Allow-Headers equal to that value; it reaches no route
\* handler, so no transport's handlePostMessage is invoked for it.
C16_PreflightEchoes ==
  (variant \in {"server.js", "part_003"} /\ trace.handler = "OPTIONS")
  => /\ resp.wireStatus = 204
     /\ resp.allowOrigin = "*"
     /\ (req.requestHeaders # Undefined =>
           resp.allowHeaders = req.requestHeaders.s)
     /\ trace.hpm = {}

-----------------------------------------------------------------------------
(* C17 *)

\* what the root route answers to the request in hand
RootAnswer(route) ==
  IF route = "/actions/call"
  THEN CASE req.http = "GET" -> RestCallGet(req).res
         [] req.http = "POST" -> RestCallPost(req).res
         [] OTHER -> RestCallOther(req.http).res
  ELSE RestList(req.http, "", route).res

\* C17: in v6.9.4, for every HTTP method and every one of /actions,
\* /actions/list and /actions/call, a request to /sse<route> or
\* /messages<route> yields the same status and body as the same request to
\* the root <route>.
C17_AliasesMirrorRoot ==
  \A prefix \in {"/sse", "/messages"} :
    \A route \in {"/actions", "/actions/list", "/actions/call"} :
      (variant = "v6.9.4" /\ req.path = prefix \o route)
      => /\ resp.wireStatus = RootAnswer(route).wireStatus
         /\ resp.body = RootAnswer(route).body

-----------------------------------------------------------------------------
(* C18 *)

\* a GET /sse of a resolving variant has just been served
SseServed == trace.handler = "GET /sse resolved"

\* the module at a path was imported and exports one of the three names
Qualifies(known, p) ==
  /\ p \in DOMAIN known
  /\ ~known[p].threw
  /\ \/ Truthy(known[p].m.SSEServerTransport)
     \/ Truthy(known[p].m.default)
     \/ Truthy(known[p].m.SSE)

\* candidate i is the first of the list that qualifies, all before it
\* having been imported
FirstQualifying(cands, known, i) ==
  /\ Qualifies(known, cands[i])
  /\ \A j \in 1..(i - 1) : cands[j] \in DOMAIN known /\ ~Qualifies(known, cands[j])

\* the candidates are imported in their listed order
TriedInOrder == trace.tried = SubSeq(Candidates(variant), 1, Len(trace.tried))

\* ok=true comes with the path and constructor of the first qualifying one
OkIsFirstQualifying ==
  trace.sse.ok =>
    \E i \in 1..Len(Candidates(variant)) :
      LET p == Candidates(variant)[i]
      IN /\ FirstQualifying(Candidates(variant), sdkLayout, i)
         /\ trace.sse.path = Str(p)
         /\ Truthy(trace.sse.ctor)
         /\ trace.sse.ctor \in {sdkLayout[p].m.SSEServerTransport,
                                sdkLayout[p].m.default, sdkLayout[p].m.SSE}

NoneQualifies ==
  \A i \in 1..Len(Candidates(variant)) :
    /\ Candidates(variant)[i] \in DOMAIN sdkLayout
    /\ ~Qualifies(sdkLayout, Candidates(variant)[i])

\* ok=false comes with a null path and constructor and one entry per
\* candidate tried, and GET /sse answers 500 "SSE transport not available"
FailureIsReported ==
  NoneQualifies =>
    /\ ~trace.sse.ok
    /\ trace.sse.path = Null
    /\ trace.sse.ctor = Null
    /\ trace.tried = Candidates(variant)
    /\ Len(trace.sse.err) = Len(trace.tried)
    /\ resp.wireStatus = 500
    /\ resp.ended
    /\ resp.body.kind = "json"
    /\ resp.body.json.error = "SSE transport not available"

\* a GET /sse that finds no transport constructs none
FailureConstructsNothing ==
  (SseServed' /\ ~trace'.sse.ok) => nextSid' = nextSid

\* C18: getSSEServerTransport tries the candidate module paths in their
\* listed order and returns ok=true with the path and constructor of the
\* first candidate that imports and exports SSEServerTransport, default or
\* SSE; when no candidate qualifies it returns ok=false with a null path and
\* constructor and one error entry per candidate tried, and GET /sse answers
\* 500 "SSE transport not available" without constructing a transport.
C18_ResolverReport ==
  /\ [](SseServed => TriedInOrder /\ OkIsFirstQualifying /\ FailureIsReported)
  /\ [][FailureConstructsNothing]_vars

=============================================================================
